---- MODULE Spec2Model ----
(***************************************************************************)
(* LibFix: the inactivity classifier (core/dependency_analyzer.py), the    *)
(* curated override table (data/inactive_packages.py) and the manifest     *)
(* parsers (core/dependency_parser.py), as state machines over bounded     *)
(* inputs.                                                                 *)
(*                                                                         *)
(* Time is counted in quarter-days (6 hours), so that 730.5 days, the      *)
(* "2 years" of the 365.25-day year, is the whole number 2922.             *)
(***************************************************************************)
EXTENDS Integers, Sequences, FiniteSets, TLC

VARIABLES
    package_info,   \* first argument of is_potentially_inactive
    package_name,   \* second argument of is_potentially_inactive
    now,            \* the wall clock datetime.now() reads, in quarter-days
    result,         \* the latest call: [at, out], out its outcome
    prev,           \* the call before the latest one: [at, out]
    manifest,       \* the manifest file handed to a parser
    parsed,         \* whether the parser has returned
    dependencies    \* what the parser returned

classifier_vars == <<package_info, package_name, now, result, prev>>
parser_vars == <<manifest, parsed, dependencies>>
vars == <<classifier_vars, parser_vars>>

----------------------------------------------------------------------------
(* Bounds of the model. *)

MaxClassifiers == 2     \* longest info.classifiers list
MaxReleases == 2        \* most keys in a releases mapping
MaxEntries == 2         \* most release entries under one key
MaxTicks == 3           \* quarter-days the clock advances
MaxDependencies == 2    \* most entries in tool.poetry.dependencies
MaxChars == 6           \* most characters in a requirements.txt
MaxBody == 4            \* most characters between the brackets in setup.py

----------------------------------------------------------------------------
(* Python values.  A dict is the sequence of its items in insertion order  *)
(* (keys distinct), which is the order .keys() and .items() iterate in.    *)

None == [tag |-> "None"]
Str(s) == [tag |-> "str", s |-> s]
List(xs) == [tag |-> "list", items |-> xs]
Dict(kvs) == [tag |-> "dict", items |-> kvs]
Item(key, value) == [k |-> key, v |-> value]

\* A string spelling the instant t as a timestamp, with a UTC offset (tz) or
\* without one.
DateStr(t, tz) == [tag |-> "datestr", t |-> t, tz |-> tz]

\* bool(x), as `not x` and `if x` evaluate it.
Truthy(x) ==
    CASE x.tag = "None" -> FALSE
      [] x.tag = "str" -> x.s # ""
      [] x.tag = "list" -> Len(x.items) > 0
      [] x.tag = "dict" -> Len(x.items) > 0
      [] OTHER -> TRUE

\* key in d, for a dict d.
HasKey(d, key) == \E i \in 1..Len(d.items) : d.items[i].k = key

\* d.get(key, default), for a dict d.
GetOr(d, key, default) ==
    IF HasKey(d, key)
    THEN d.items[CHOOSE i \in 1..Len(d.items) : d.items[i].k = key].v
    ELSE default

RECURSIVE SeqsUpTo(_, _)
\* Every sequence over S of length at most n.
SeqsUpTo(S, n) ==
    IF n = 0 THEN {<<>>}
    ELSE LET shorter == SeqsUpTo(S, n - 1)
         IN shorter \cup {Append(s, x) : s \in {r \in shorter : Len(r) = n - 1}, x \in S}

Distinct(s) == \A i, j \in 1..Len(s) : i # j => s[i] # s[j]

----------------------------------------------------------------------------
(* data/inactive_packages.py *)

inactive_package_replacements ==
    Dict(<<
        Item("old-package-1", Dict(<<
            Item("reason", "No updates in over 3 years, known security vulnerabilities."),
            Item("alternatives", <<"active-package-1", "another-good-option">>) >>)),
        Item("another-stale-lib", Dict(<<
            Item("reason", "Project seems abandoned, maintainers unresponsive."),
            Item("alternatives", <<"maintained-lib">>) >>)) >>)

----------------------------------------------------------------------------
(* packaging.version.Version, as line 37 and 39 use it.                    *)
(*                                                                         *)
(* A key of the releases mapping is a string; the model keeps its          *)
(* spelling: an optional leading "v", the release segments (each a number  *)
(* n written with z leading zeros) and at most one pre-release part (a     *)
(* separator, a tag and a number).  The empty string is the spelling with  *)
(* no part at all.                                                         *)

Key(v, rel, pre) == [v |-> v, rel |-> rel, pre |-> pre]
Seg(n) == [n |-> n, z |-> 0]
EmptyKey == Key(FALSE, <<>>, <<>>)

PreSeparators == {"", "-", "_", "."}
PreTags == {"a", "b", "c", "rc", "alpha", "beta", "pre", "preview"}

\* Whether Version(key) parses; it raises InvalidVersion otherwise.
ValidVersion(key) ==
    /\ Len(key.rel) >= 1
    /\ \A i \in 1..Len(key.pre) :
          key.pre[i].tag \in PreTags /\ key.pre[i].sep \in PreSeparators

\* The letter a pre-release tag is normalised to.
PreLetter(tag) ==
    CASE tag \in {"a", "alpha"} -> "a"
      [] tag \in {"b", "beta"} -> "b"
      [] OTHER -> "rc"

\* Version(key): the release numbers and the normalised pre-release.
Version(key) ==
    [release |-> [i \in 1..Len(key.rel) |-> key.rel[i].n],
     pre |-> [i \in 1..Len(key.pre) |->
                 [l |-> PreLetter(key.pre[i].tag), n |-> key.pre[i].n]]]

\* str(version): the canonical spelling.
VersionStr(ver) ==
    Key(FALSE,
        [i \in 1..Len(ver.release) |-> Seg(ver.release[i])],
        [i \in 1..Len(ver.pre) |-> [sep |-> "", tag |-> ver.pre[i].l, n |-> ver.pre[i].n]])

RECURSIVE StripZeros(_)
\* The release with its trailing zeros dropped, as the comparison key has it.
StripZeros(rel) ==
    IF Len(rel) > 0 /\ rel[Len(rel)] = 0
    THEN StripZeros(SubSeq(rel, 1, Len(rel) - 1))
    ELSE rel

RECURSIVE TupleLess(_, _)
\* Python's ordering of two tuples of numbers.
TupleLess(a, b) ==
    IF Len(a) = 0 THEN Len(b) > 0
    ELSE IF Len(b) = 0 THEN FALSE
    ELSE IF a[1] # b[1] THEN a[1] < b[1]
    ELSE TupleLess(Tail(a), Tail(b))

LetterRank(l) == CASE l = "a" -> 0 [] l = "b" -> 1 [] OTHER -> 2

\* The pre-release part of the comparison key: a final release sorts after
\* every pre-release of the same release numbers.
PreLess(p, q) ==
    IF Len(p) = 0 THEN FALSE
    ELSE IF Len(q) = 0 THEN TRUE
    ELSE TupleLess(<<LetterRank(p[1].l), p[1].n>>, <<LetterRank(q[1].l), q[1].n>>)

\* a < b on Version objects.
VersionLess(a, b) ==
    LET ra == StripZeros(a.release)
        rb == StripZeros(b.release)
    IN IF ra # rb THEN TupleLess(ra, rb) ELSE PreLess(a.pre, b.pre)

RECURSIVE MaxVersionFrom(_, _)
\* max() over Version objects: the first of the greatest ones.
MaxVersionFrom(best, rest) ==
    IF Len(rest) = 0 THEN best
    ELSE MaxVersionFrom(IF VersionLess(best, rest[1]) THEN rest[1] ELSE best, Tail(rest))

MaxVersion(versions) == MaxVersionFrom(versions[1], Tail(versions))

----------------------------------------------------------------------------
(* dateutil.parser.parse and datetime arithmetic, as lines 40 to 49 use    *)
(* them.                                                                   *)

\* Whether parse_date(s) returns a datetime; it raises ParserError otherwise.
Parseable(s) == s.tag = "datestr"

\* parse_date(s): the instant, aware when the string carries an offset.
parse_date(s) == [t |-> s.t, tz |-> s.tz]

RECURSIVE MaxOf(_)
\* max() over a non-empty sequence of numbers.
MaxOf(ts) ==
    IF Len(ts) = 1 THEN ts[1]
    ELSE LET m == MaxOf(Tail(ts)) IN IF ts[1] >= m THEN ts[1] ELSE m

\* timedelta.days of (clock - t): whole days, rounded down.
DaysSince(clock, t) == (clock - t) \div 4

DaysPerYearX100 == 36525
ThresholdYears == 2

\* years_since_last_release > 2, with years = days / 365.25.
OverThreshold(days) == days * 100 > ThresholdYears * DaysPerYearX100

\* f"{years:.1f}" for years = days / 365.25: the nearest tenth.
YearsText(days) ==
    LET tenths == (days * 2000 + DaysPerYearX100) \div (2 * DaysPerYearX100)
    IN ToString(tenths \div 10) \o "." \o ToString(tenths % 10)

----------------------------------------------------------------------------
(* core/dependency_analyzer.py: is_potentially_inactive *)

\* What a call ends with: a returned verdict triple, or an exception that
\* leaves the function.
Return(inactive, reason, alternatives) ==
    [kind |-> "return", inactive |-> inactive, reason |-> reason,
     alternatives |-> alternatives]
Raise(exc) == [kind |-> "raise", exc |-> exc]

Inactive7 == "Development Status :: 7 - Inactive"
Mature6 == "Development Status :: 6 - Mature"
Stable5 == "Development Status :: 5 - Production/Stable"

\* The lookup as it would be with names normalised before it (lower case,
\* "_" read as "-").
InOverrideTableNormalised(name) ==
    HasKey(inactive_package_replacements,
           IF name \in {"Old-Package-1", "old_package_1"} THEN "old-package-1" ELSE name)

\* Line 20: package_name in inactive_package_replacements.
InOverrideTable(name) == HasKey(inactive_package_replacements, name)

\* Lines 21-24: the verdict of the curated table.
OverrideVerdict(name) ==
    LET inactive_data == GetOr(inactive_package_replacements, name, Dict(<<>>))
    IN Return(TRUE,
              "Known inactive package: "
                  \o GetOr(inactive_data, "reason", "No specific reason provided."),
              GetOr(inactive_data, "alternatives", <<>>))

\* The guard as it would be with `and` between the two section tests.
MissingMetadataBoth(metadata) ==
    \/ ~Truthy(metadata)
    \/ (~HasKey(metadata, "info") /\ ~HasKey(metadata, "releases"))

\* Line 26: the guard of the missing-metadata rule.
MissingMetadata(metadata) ==
    \/ ~Truthy(metadata)
    \/ ~HasKey(metadata, "info")
    \/ ~HasKey(metadata, "releases")

InsufficientVerdict ==
    Return(FALSE, "Could not retrieve sufficient PyPI information.", <<>>)

\* Line 37: the keys the comprehension keeps (if v).
NonEmptyKeys(releases) ==
    SelectSeq([i \in 1..Len(releases.items) |-> releases.items[i].k],
              LAMBDA key : key # EmptyKey)

\* Line 39: str(max(parsed_versions)).
latest_version_str(keys) ==
    VersionStr(MaxVersion([i \in 1..Len(keys) |-> Version(keys[i])]))

\* Line 40: the upload_time values the comprehension keeps
\* ('upload_time' in r and r['upload_time']).
PresentUploads(entries) ==
    LET kept == SelectSeq(entries.items,
                          LAMBDA r : /\ HasKey(r, "upload_time")
                                     /\ Truthy(GetOr(r, "upload_time", None)))
    IN [i \in 1..Len(kept) |-> GetOr(kept[i], "upload_time", None)]

\* Lines 33-44: latest_release_date after the try block, <<>> for None and
\* <<d>> for a datetime d.  Every exception raised inside the block is caught
\* at line 43 and leaves the value None.
latest_release_date(releases) ==
    IF ~Truthy(releases) THEN <<>>
    ELSE IF releases.tag # "dict" THEN <<>>          \* .keys(): AttributeError
    ELSE LET keys == NonEmptyKeys(releases)
         IN IF \E i \in 1..Len(keys) : ~ValidVersion(keys[i])
            THEN <<>>                                \* Version(v): InvalidVersion
            ELSE IF Len(keys) = 0 THEN <<>>
            ELSE LET uploads == PresentUploads(
                         GetOr(releases, latest_version_str(keys), List(<<>>)))
                     dates == [i \in 1..Len(uploads) |-> parse_date(uploads[i])]
                 IN IF \E i \in 1..Len(uploads) : ~Parseable(uploads[i])
                    THEN <<>>                        \* parse_date: ParserError
                    ELSE IF Len(dates) = 0 THEN <<>>
                    ELSE IF \E i, j \in 1..Len(dates) : dates[i].tz # dates[j].tz
                    THEN <<>>                        \* max(): TypeError
                    ELSE << [t |-> MaxOf([i \in 1..Len(dates) |-> dates[i].t]),
                             tz |-> dates[1].tz] >>

StaleVerdict(days) ==
    Return(TRUE, "Last release was over " \o YearsText(days) \o " years ago.", <<>>)

InactiveVerdict == Return(TRUE, "Marked as 'Inactive' on PyPI.", <<>>)
MatureVerdict == Return(FALSE, "Seems to be in a mature/stable state.", <<>>)
ActiveVerdict == Return(FALSE, "Seems active.", <<>>)

\* The loop as it would be if Inactive won wherever it stands in the list.
ScanInactiveAnywhere(classifiers) ==
    IF \E i \in 1..Len(classifiers) : classifiers[i] = Inactive7 THEN InactiveVerdict
    ELSE IF \E i \in 1..Len(classifiers) : classifiers[i] \in {Mature6, Stable5}
    THEN MatureVerdict
    ELSE ActiveVerdict

RECURSIVE ScanClassifiers(_)
\* Lines 54-60: the loop over the classifiers and the default after it.
ScanClassifiers(classifiers) ==
    IF Len(classifiers) = 0 THEN ActiveVerdict
    ELSE IF classifiers[1] = Inactive7 THEN InactiveVerdict
    ELSE IF classifiers[1] \in {Mature6, Stable5} THEN MatureVerdict
    ELSE ScanClassifiers(Tail(classifiers))

\* Lines 53-60: info.get('classifiers', []) and the loop.
ClassifierRule(info) ==
    IF info.tag # "dict" THEN Raise("AttributeError")      \* info.get
    ELSE LET classifiers == GetOr(info, "classifiers", List(<<>>))
         IN IF classifiers.tag # "list" THEN Raise("TypeError")   \* for ... in None
            ELSE ScanClassifiers(classifiers.items)

\* The two rules as they would be with the classifiers consulted first.
ClassifiersThenStaleness(info, latest, clock) ==
    IF Len(latest) > 0 /\ latest[1].tz THEN Raise("TypeError")
    ELSE IF ClassifierRule(info) # ActiveVerdict THEN ClassifierRule(info)
    ELSE IF Len(latest) > 0 /\ OverThreshold(DaysSince(clock, latest[1].t))
    THEN StaleVerdict(DaysSince(clock, latest[1].t))
    ELSE ActiveVerdict

\* Lines 47-60: the staleness rule on the date found, then the classifiers.
StalenessThenClassifiers(info, latest, clock) ==
    IF Len(latest) > 0 /\ latest[1].tz
    THEN Raise("TypeError")                    \* naive now() minus aware datetime
    ELSE IF Len(latest) > 0 /\ OverThreshold(DaysSince(clock, latest[1].t))
    THEN StaleVerdict(DaysSince(clock, latest[1].t))
    ELSE ClassifierRule(info)

\* The function as it would be with the staleness rule tried before the
\* override table.
StalenessBeforeOverride(metadata, name, clock) ==
    LET latest == latest_release_date(GetOr(metadata, "releases", None))
    IN IF /\ ~MissingMetadata(metadata)
          /\ Len(latest) > 0
          /\ ~latest[1].tz
          /\ OverThreshold(DaysSince(clock, latest[1].t))
       THEN StaleVerdict(DaysSince(clock, latest[1].t))
       ELSE IF InOverrideTable(name) THEN OverrideVerdict(name)
       ELSE IF MissingMetadata(metadata) THEN InsufficientVerdict
       ELSE StalenessThenClassifiers(GetOr(metadata, "info", None), latest, clock)

\* Lines 20-60, called while datetime.now() is `clock`.
is_potentially_inactive(metadata, name, clock) ==
    IF InOverrideTable(name) THEN OverrideVerdict(name)
    ELSE IF MissingMetadata(metadata) THEN InsufficientVerdict
    ELSE IF ~HasKey(metadata, "info") \/ ~HasKey(metadata, "releases")
    THEN Raise("KeyError")                     \* package_info['info'], ['releases']
    ELSE StalenessThenClassifiers(
             GetOr(metadata, "info", None),
             latest_release_date(GetOr(metadata, "releases", None)),
             clock)

----------------------------------------------------------------------------
(* The inputs of is_potentially_inactive the model draws from.             *)

\* The two keys of the table, and the first of them in another case and
\* with another separator.
PackageNames == {"old-package-1", "another-stale-lib", "Old-Package-1", "old_package_1"}

\* Upload instants, against a clock that starts at 0: five years back, a
\* quarter-day short of 730.5 days back, and ten days ahead.
OldTime == -(5 * 1461)
EdgeTime == 1 - 2 * 1461
FutureTime == 10 * 4

\* "1.0.0", "2.0.0", "v2.0", "01.0", "2.0.0-rc1", "3.0.0.final0" and "".
K100 == Key(FALSE, <<Seg(1), Seg(0), Seg(0)>>, <<>>)
K200 == Key(FALSE, <<Seg(2), Seg(0), Seg(0)>>, <<>>)
KV20 == Key(TRUE, <<Seg(2), Seg(0)>>, <<>>)
K010 == Key(FALSE, <<[n |-> 1, z |-> 1], Seg(0)>>, <<>>)
K200rc1 == Key(FALSE, <<Seg(2), Seg(0), Seg(0)>>, <<[sep |-> "-", tag |-> "rc", n |-> 1]>>)
KFinal == Key(FALSE, <<Seg(3), Seg(0), Seg(0)>>, <<[sep |-> ".", tag |-> "final", n |-> 0]>>)
VersionKeys == {K100, K200, KV20, K010, K200rc1, KFinal, EmptyKey}

\* A release entry with the given upload_time, and one without the field.
Entry(upload_time) == Dict(<<Item("upload_time", upload_time)>>)
Uploaded(t) == Entry(DateStr(t, FALSE))
ReleaseEntries ==
    {Dict(<<>>), Entry(Str("")), Entry(Str("not a date")), Entry(DateStr(OldTime, TRUE)),
     Uploaded(OldTime), Uploaded(EdgeTime), Uploaded(FutureTime)}

\* Releases with one canonical key and every list of entries under it.
ReleasesByEntries ==
    {Dict(<<Item(K200, List(es))>>) : es \in SeqsUpTo(ReleaseEntries, MaxEntries)}

\* Releases with every choice and order of keys, one dated entry under each.
ReleasesByKeys ==
    {Dict([i \in 1..Len(ks) |-> Item(ks[i], List(<<Uploaded(ts[i])>>))]) :
        <<ks, ts>> \in {p \in SeqsUpTo(VersionKeys, MaxReleases)
                               \X SeqsUpTo({OldTime, EdgeTime}, MaxReleases) :
                           Len(p[1]) = Len(p[2]) /\ Len(p[1]) > 0 /\ Distinct(p[1])}}

\* A few releases values, among them null and a non-mapping.
FewReleases ==
    {None, List(<<Str("2.0.0")>>), Dict(<<>>),
     Dict(<<Item(K200, List(<<Uploaded(OldTime)>>))>>),
     Dict(<<Item(K200, List(<<Uploaded(EdgeTime)>>))>>),
     Dict(<<Item(KV20, List(<<Uploaded(OldTime)>>))>>),
     Dict(<<Item(K200, List(<<Entry(DateStr(OldTime, TRUE))>>))>>),
     Dict(<<Item(K200, List(<<Entry(Str("not a date"))>>))>>)}

Classifiers == {Inactive7, Mature6, Stable5, "Programming Language :: Python :: 3"}
WithClassifiers(cs) == Dict(<<Item("version", Str("2.0.0")), Item("classifiers", cs)>>)

\* Every info value: null, a non-mapping, a mapping without classifiers, with
\* null classifiers, and with every list of classifiers.
AllInfos ==
    {None, Str("info"), Dict(<<Item("version", Str("2.0.0"))>>), WithClassifiers(None)}
        \cup {WithClassifiers(List(cs)) : cs \in SeqsUpTo(Classifiers, MaxClassifiers)}

FewInfos == {None, WithClassifiers(List(<<Stable5>>)), WithClassifiers(List(<<Inactive7>>))}

Document(info, releases) == Dict(<<Item("info", info), Item("releases", releases)>>)

\* The metadata arguments: a failed lookup, documents that lack a section,
\* and full documents.
PackageInfos ==
    {None, Dict(<<>>)}
        \cup {Dict(<<Item("info", i)>>) : i \in FewInfos}
        \cup {Dict(<<Item("releases", r)>>) : r \in FewReleases}
        \cup {Document(i, r) : i \in AllInfos, r \in FewReleases}
        \cup {Document(WithClassifiers(List(<<Stable5>>)), r) :
                 r \in ReleasesByEntries \cup ReleasesByKeys}

----------------------------------------------------------------------------
(* The classifier's state machine: the arguments are fixed at the start,   *)
(* the clock advances, and the function is called at any time.             *)

NoCall == [at |-> -1, out |-> [kind |-> "none"]]
NoManifest == [kind |-> "none"]

Init ==
    /\ package_info \in PackageInfos
    /\ package_name \in PackageNames
    /\ now = 0
    /\ result = NoCall
    /\ prev = NoCall
    /\ manifest = NoManifest
    /\ parsed = FALSE
    /\ dependencies = <<>>

\* A call of is_potentially_inactive(package_info, package_name).
Call ==
    /\ result' = [at |-> now,
                  out |-> is_potentially_inactive(package_info, package_name, now)]
    /\ prev' = result
    /\ UNCHANGED <<package_info, package_name, now, parser_vars>>

\* Six hours pass.
Tick ==
    /\ now < MaxTicks
    /\ now' = now + 1
    /\ UNCHANGED <<package_info, package_name, result, prev, parser_vars>>

Next == Call \/ Tick

Spec == Init /\ [][Next]_vars

----------------------------------------------------------------------------
(* core/dependency_parser.py: parse_pyproject_toml *)

RECURSIVE JoinRepr(_, _)
RECURSIVE PyRepr(_)
\* repr(x) of a str, a list or a dict, which str() and an f-string give for
\* a list or a dict.
PyRepr(x) ==
    CASE x.tag = "str" -> "'" \o x.s \o "'"
      [] x.tag = "list" -> "[" \o JoinRepr(x.items, FALSE) \o "]"
      [] x.tag = "dict" -> "{" \o JoinRepr(x.items, TRUE) \o "}"
      [] OTHER -> "None"

\* The elements' repr joined by ", ", each item of a dict as key: value.
JoinRepr(items, keyed) ==
    IF Len(items) = 0 THEN ""
    ELSE LET one == IF keyed
                    THEN "'" \o items[1].k \o "': " \o PyRepr(items[1].v)
                    ELSE PyRepr(items[1])
         IN IF Len(items) = 1 THEN one
            ELSE one \o ", " \o JoinRepr(Tail(items), keyed)

\* f"{x}": a str as it is, anything else through repr.
Format(x) == IF x.tag = "str" THEN x.s ELSE PyRepr(x)

\* Line 77: f"{package}{version if version != '*' else ''}".
Specifier(package, version) ==
    package \o (IF version # Str("*") THEN Format(version) ELSE "")

RECURSIVE PoetryDependencies(_)
\* Lines 73-77: the loop over the items of the dependencies table.
PoetryDependencies(items) ==
    IF Len(items) = 0 THEN <<>>
    ELSE IF items[1].k # "python"
    THEN <<Specifier(items[1].k, items[1].v)>> \o PoetryDependencies(Tail(items))
    ELSE PoetryDependencies(Tail(items))

\* Line 71: the document has the table tool.poetry.dependencies.
HasPoetryDependencies(data) ==
    /\ HasKey(data, "tool")
    /\ HasKey(GetOr(data, "tool", None), "poetry")
    /\ HasKey(GetOr(GetOr(data, "tool", None), "poetry", None), "dependencies")

\* Lines 65-82.  A missing file (FileNotFoundError) and a malformed one
\* (TomlDecodeError) leave the list empty.
parse_pyproject_toml(file) ==
    IF file.state # "toml" THEN <<>>
    ELSE IF HasPoetryDependencies(file.data)
    THEN PoetryDependencies(
             GetOr(GetOr(GetOr(file.data, "tool", None), "poetry", None),
                   "dependencies", None).items)
    ELSE <<>>

----------------------------------------------------------------------------
(* The pyproject.toml files the model draws from.                          *)

DependencyNames == {"python", "django", "flask", "requests"}

\* A constraint string, the wildcard, and an inline table with a version
\* and extras.
InlineTable ==
    Dict(<<Item("version", Str("^2.0")), Item("extras", List(<<Str("security")>>))>>)
DependencyValues == {Str("^4.0"), Str(">=1.2"), Str("*"), InlineTable}

DependencyTables ==
    {Dict([i \in 1..Len(ks) |-> Item(ks[i], vs[i])]) :
        <<ks, vs>> \in {p \in SeqsUpTo(DependencyNames, MaxDependencies)
                               \X SeqsUpTo(DependencyValues, MaxDependencies) :
                           Len(p[1]) = Len(p[2]) /\ Distinct(p[1])}}

MissingFile == [state |-> "missing"]
MalformedFile == [state |-> "malformed"]
TomlFile(data) == [state |-> "toml", data |-> data]
Project == Item("project", Dict(<<Item("name", Str("demo"))>>))

PyprojectFiles ==
    {MissingFile, MalformedFile,
     TomlFile(Dict(<<>>)),
     TomlFile(Dict(<<Project>>)),
     TomlFile(Dict(<<Project, Item("tool", Dict(<<>>))>>)),
     TomlFile(Dict(<<Project, Item("tool", Dict(<<Item("poetry", Dict(<<>>))>>))>>))}
        \cup {TomlFile(Dict(<<Item("tool",
                  Dict(<<Item("poetry", Dict(<<Item("name", Str("demo")),
                                               Item("dependencies", t)>>))>>))>>)) :
                 t \in DependencyTables}

----------------------------------------------------------------------------
(* core/dependency_parser.py: parse_requirements_txt                       *)
(*                                                                         *)
(* The text of a file is the sequence of its characters; a returned        *)
(* dependency is the string its characters spell.                          *)

\* The characters str.strip() removes.
Whitespace == {" ", "\t", "\n", "\r", "\f"}

RECURSIVE Text(_)
\* The string a sequence of characters spells.
Text(chars) == IF Len(chars) = 0 THEN "" ELSE chars[1] \o Text(Tail(chars))

RECURSIVE LStripChars(_, _)
\* s.lstrip(set): s without its leading characters of the set.
LStripChars(s, set) ==
    IF Len(s) > 0 /\ s[1] \in set THEN LStripChars(Tail(s), set) ELSE s

RECURSIVE RStripChars(_, _)
\* s.rstrip(set): s without its trailing characters of the set.
RStripChars(s, set) ==
    IF Len(s) > 0 /\ s[Len(s)] \in set
    THEN RStripChars(SubSeq(s, 1, Len(s) - 1), set)
    ELSE s

\* s.strip(set), and s.strip() for the set of whitespace.
StripChars(s, set) == RStripChars(LStripChars(s, set), set)
strip(s) == StripChars(s, Whitespace)

RECURSIVE FileLines(_, _)
\* for line in f: the lines of the rest of the text, each with the newline
\* that ends it; `line` is the part of the current line read so far.
FileLines(line, rest) ==
    IF Len(rest) = 0 THEN (IF Len(line) = 0 THEN <<>> ELSE <<line>>)
    ELSE IF rest[1] = "\n" THEN <<Append(line, "\n")>> \o FileLines(<<>>, Tail(rest))
    ELSE FileLines(Append(line, rest[1]), Tail(rest))

\* Line 23: if line and not line.startswith('#'), on the stripped line.
KeepsLine(line) == Len(line) > 0 /\ line[1] # "#"

\* The loop body as it would be with the test made on the line before it
\* is stripped.
RequirementOfRawLine(line) ==
    IF KeepsLine(line) THEN <<Text(strip(line))>> ELSE <<>>

\* Lines 21-25: what one line of the file adds to the list.
RequirementOf(line) ==
    IF KeepsLine(strip(line)) THEN <<Text(strip(line))>> ELSE <<>>

RECURSIVE RequirementsOf(_)
\* Lines 19-25: the loop over the lines.
RequirementsOf(lines) ==
    IF Len(lines) = 0 THEN <<>>
    ELSE RequirementOf(lines[1]) \o RequirementsOf(Tail(lines))

\* Lines 15-28.  A missing file (FileNotFoundError) leaves the list empty.
parse_requirements_txt(file) ==
    IF file.state # "text" THEN <<>>
    ELSE RequirementsOf(FileLines(<<>>, file.text))

----------------------------------------------------------------------------
(* The requirements.txt files the model draws from.                        *)

TextFile(text) == [state |-> "text", text |-> text]
RequirementChars == {"r", "#", " ", "\n"}
RequirementsFiles ==
    {MissingFile} \cup {TextFile(t) : t \in SeqsUpTo(RequirementChars, MaxChars)}

----------------------------------------------------------------------------
(* parse_setup_py: the text of setup.py is a sequence of characters in     *)
(* which the literal install_requires= is one token.                       *)

Keyword == "install_requires="

\* The position of the first "]" at or after position i, 0 when there is none.
RECURSIVE ClosingBracket(_, _)
ClosingBracket(content, i) ==
    IF i > Len(content) THEN 0
    ELSE IF content[i] = "]" THEN i
    ELSE ClosingBracket(content, i + 1)

\* install_requires=\[([^\]]*)\] matches at position i.
MatchesAt(content, i) ==
    /\ i + 1 <= Len(content)
    /\ content[i] = Keyword
    /\ content[i + 1] = "["
    /\ ClosingBracket(content, i + 2) # 0

NoMatch == [found |-> FALSE, group |-> <<>>]

\* re.search: the leftmost match, and its group 1.
RECURSIVE search(_, _)
search(content, i) ==
    IF i > Len(content) THEN NoMatch
    ELSE IF MatchesAt(content, i)
    THEN [found |-> TRUE,
          group |-> SubSeq(content, i + 2, ClosingBracket(content, i + 2) - 1)]
    ELSE search(content, i + 1)

\* str.split(','): the pieces between the commas, the empty ones included.
RECURSIVE split(_, _)
split(piece, rest) ==
    IF Len(rest) = 0 THEN <<piece>>
    ELSE IF rest[1] = "," THEN <<piece>> \o split(<<>>, Tail(rest))
    ELSE split(Append(piece, rest[1]), Tail(rest))

\* dep.strip().strip("'").strip('"')
Unquoted(dep) == Text(StripChars(StripChars(strip(dep), {"'"}), {"\""}))

RECURSIVE UnquotedAll(_)
UnquotedAll(deps) ==
    IF Len(deps) = 0 THEN <<>>
    ELSE <<Unquoted(deps[1])>> \o UnquotedAll(Tail(deps))

parse_setup_py(file) ==
    IF file.state # "text" THEN <<>>
    ELSE LET match == search(file.text, 1) IN
         IF ~match.found THEN <<>>
         ELSE UnquotedAll(split(<<>>, strip(match.group)))

\* The setup.py files parsed: none, texts without a list, and texts with a
\* list whose body is drawn from a name, a comma, the quotes and a blank.
ListChars == {"a", ",", "'", "\"", " "}
ListOpenings == {<<Keyword, "[">>, <<"a", "\n", Keyword, "[">>,
                 <<Keyword, "a", Keyword, "[">>}
ListClosings == {<<>>, <<"]">>, <<"]", ",", "a", "]">>}
SetupFiles ==
    {MissingFile}
    \cup {TextFile(t) : t \in {<<>>, <<"[", "a", "]">>, <<Keyword, "a", "]">>}}
    \cup {TextFile(o \o b \o c) :
            o \in ListOpenings, b \in SeqsUpTo(ListChars, MaxBody), c \in ListClosings}

----------------------------------------------------------------------------
(* The parsers' state machine: a manifest is fixed at the start and parsed *)
(* once.                                                                   *)

ParserInit ==
    /\ package_info = None
    /\ package_name = "old-package-1"
    /\ now = 0
    /\ result = NoCall
    /\ prev = NoCall
    /\ manifest \in {[kind |-> "pyproject", file |-> f] : f \in PyprojectFiles}
                     \cup {[kind |-> "requirements", file |-> f] : f \in RequirementsFiles}
                     \cup {[kind |-> "setup", file |-> f] : f \in SetupFiles}
    /\ parsed = FALSE
    /\ dependencies = <<>>

\* A call of parse_pyproject_toml(file_path).
ParsePyproject ==
    /\ manifest.kind = "pyproject"
    /\ ~parsed
    /\ parsed' = TRUE
    /\ dependencies' = parse_pyproject_toml(manifest.file)
    /\ UNCHANGED <<classifier_vars, manifest>>

\* A call of parse_requirements_txt(file_path).
ParseRequirements ==
    /\ manifest.kind = "requirements"
    /\ ~parsed
    /\ parsed' = TRUE
    /\ dependencies' = parse_requirements_txt(manifest.file)
    /\ UNCHANGED <<classifier_vars, manifest>>

\* A call of parse_setup_py(file_path).
ParseSetup ==
    /\ manifest.kind = "setup"
    /\ ~parsed
    /\ parsed' = TRUE
    /\ dependencies' = parse_setup_py(manifest.file)
    /\ UNCHANGED <<classifier_vars, manifest>>

ParserNext == ParsePyproject \/ ParseRequirements \/ ParseSetup

ParserSpec == ParserInit /\ [][ParserNext]_vars

----------------------------------------------------------------------------
(* What the properties below speak of.                                     *)

Called == result.out.kind # "none"
Returned == result.out.kind = "return"
TheInfo == GetOr(package_info, "info", None)
TheReleases == GetOr(package_info, "releases", None)

\* The call went past the override rule and the missing-metadata rule.
RulesReached == ~InOverrideTable(package_name) /\ ~MissingMetadata(package_info)

\* package_info has no such section (it is absent, or a mapping without it).
Lacks(section) == package_info.tag # "dict" \/ ~HasKey(package_info, section)

OverrideReasons ==
    {"Known inactive package: " \o r :
        r \in {"No updates in over 3 years, known security vulnerabilities.",
               "Project seems abandoned, maintainers unresponsive.",
               "No specific reason provided."}}

\* Key i of the releases mapping parses.
Parses(releases, i) ==
    releases.items[i].k # EmptyKey /\ ValidVersion(releases.items[i].k)

\* Key i is the one whose parsed version is the maximum of the parseable keys.
IsNewest(releases, i) ==
    /\ Parses(releases, i)
    /\ \A j \in 1..Len(releases.items) :
          (j # i /\ Parses(releases, j))
              => VersionLess(Version(releases.items[j].k), Version(releases.items[i].k))

\* The entries hold an upload timestamp, and every one present is a
\* timestamp without offset.
Dated(entries) ==
    /\ Len(PresentUploads(entries)) > 0
    /\ \A i \in 1..Len(PresentUploads(entries)) :
          Parseable(PresentUploads(entries)[i]) /\ ~PresentUploads(entries)[i].tz

\* The latest upload instant among dated entries.
LatestUpload(entries) ==
    MaxOf([i \in 1..Len(PresentUploads(entries)) |-> PresentUploads(entries)[i].t])

\* The staleness rule fired in the latest call: it found a date, and the
\* whole days since it are over the threshold.
StaleFired ==
    /\ RulesReached
    /\ Len(latest_release_date(TheReleases)) > 0
    /\ ~latest_release_date(TheReleases)[1].tz
    /\ OverThreshold(DaysSince(result.at, latest_release_date(TheReleases)[1].t))

HasClassifierList ==
    /\ TheInfo.tag = "dict"
    /\ GetOr(TheInfo, "classifiers", List(<<>>)).tag = "list"
TheClassifiers == GetOr(TheInfo, "classifiers", List(<<>>)).items
IsRecognised(c) == c \in {Inactive7, Mature6, Stable5}

----------------------------------------------------------------------------
\* C1: for a package name that is an exact key of the override table the
\* call returns inactive=true, "Known inactive package: " plus the entry's
\* reason, and the entry's alternatives, whatever the metadata is; for a name
\* that differs from every key in case or separator the override verdict is
\* never returned.
C1_OverrideByExactName ==
    Called =>
        /\ package_name = "old-package-1" =>
              result.out = Return(TRUE,
                  "Known inactive package: No updates in over 3 years, known security vulnerabilities.",
                  <<"active-package-1", "another-good-option">>)
        /\ package_name = "another-stale-lib" =>
              result.out = Return(TRUE,
                  "Known inactive package: Project seems abandoned, maintainers unresponsive.",
                  <<"maintained-lib">>)
        /\ package_name \in {"Old-Package-1", "old_package_1"} =>
              (Returned => result.out.reason \notin OverrideReasons)

\* A table key was classified with malformed metadata (info and releases null).
C1_Witness ==
    /\ Called
    /\ package_name = "another-stale-lib"
    /\ package_info = Document(None, None)
    /\ result.out.inactive

\* C2 as stated: for a name outside the table, the insufficient-information
\* verdict is returned exactly when the metadata is absent or lacks both the
\* info and the releases section.
C2_MissingOnlyWhenBothLack ==
    (Called /\ ~InOverrideTable(package_name)) =>
        (result.out = InsufficientVerdict
            <=> (~Truthy(package_info) \/ (Lacks("info") /\ Lacks("releases"))))

\* C2, amended: for a name outside the table, the insufficient-information
\* verdict is returned exactly when the metadata is absent or empty or lacks
\* at least one of the info and releases sections.
C2_MissingWhenEitherLacks ==
    (Called /\ ~InOverrideTable(package_name)) =>
        (result.out = InsufficientVerdict
            <=> (~Truthy(package_info) \/ Lacks("info") \/ Lacks("releases")))

\* Metadata with only an info section, marked Inactive, was answered with
\* insufficient information.
C2_Witness ==
    /\ Called
    /\ package_name = "old_package_1"
    /\ package_info = Dict(<<Item("info", WithClassifiers(List(<<Inactive7>>)))>>)
    /\ result.out = InsufficientVerdict

\* C3: with a well-formed info section, when every key of the releases
\* mapping parses, and the key whose version is the maximum holds dated
\* entries whose latest upload is over the threshold in whole days, the
\* verdict is the staleness verdict, however that key is spelled.
C3_StaleWhateverTheSpelling ==
    (Called /\ RulesReached /\ HasClassifierList /\ TheReleases.tag = "dict") =>
        \A i \in 1..Len(TheReleases.items) :
            ( /\ \A j \in 1..Len(TheReleases.items) : Parses(TheReleases, j)
              /\ IsNewest(TheReleases, i)
              /\ Dated(TheReleases.items[i].v)
              /\ OverThreshold(DaysSince(result.at, LatestUpload(TheReleases.items[i].v))) )
            => result.out =
                   StaleVerdict(DaysSince(result.at, LatestUpload(TheReleases.items[i].v)))

\* C4: with a well-formed info section, when some key of the releases
\* mapping does not parse, and the maximum of the parseable keys is
\* canonically spelled and holds dated entries whose latest upload is over
\* the threshold in whole days, the verdict is still the staleness verdict.
C4_UnparseableKeySkipped ==
    (Called /\ RulesReached /\ HasClassifierList /\ TheReleases.tag = "dict") =>
        \A i \in 1..Len(TheReleases.items) :
            ( /\ \E j \in 1..Len(TheReleases.items) :
                    TheReleases.items[j].k # EmptyKey /\ ~Parses(TheReleases, j)
              /\ IsNewest(TheReleases, i)
              /\ VersionStr(Version(TheReleases.items[i].k)) = TheReleases.items[i].k
              /\ Dated(TheReleases.items[i].v)
              /\ OverThreshold(DaysSince(result.at, LatestUpload(TheReleases.items[i].v))) )
            => result.out =
                   StaleVerdict(DaysSince(result.at, LatestUpload(TheReleases.items[i].v)))

\* C5: with a well-formed info section, when the staleness rule has a date
\* without offset to compare, it fires exactly when the time since that date
\* is more than 730.5 days (2 * 1461 quarter-days).
C5_FiresOver730AndAHalfDays ==
    ( /\ Called
      /\ RulesReached
      /\ HasClassifierList
      /\ Len(latest_release_date(TheReleases)) > 0
      /\ ~latest_release_date(TheReleases)[1].tz ) =>
        LET elapsed == result.at - latest_release_date(TheReleases)[1].t
        IN (result.out = StaleVerdict(DaysSince(result.at,
                                                latest_release_date(TheReleases)[1].t)))
              <=> elapsed * 100 > 4 * ThresholdYears * DaysPerYearX100

C7_FirstRecognisedClassifierDecides ==
    ( /\ Called
      /\ RulesReached
      /\ ~StaleFired
      /\ Len(latest_release_date(TheReleases)) > 0 => ~latest_release_date(TheReleases)[1].tz
      /\ HasClassifierList ) =>
        LET recognised == {i \in 1..Len(TheClassifiers) : IsRecognised(TheClassifiers[i])}
        IN IF recognised = {} THEN result.out = ActiveVerdict
           ELSE LET first == CHOOSE i \in recognised : \A j \in recognised : i <= j
                IN IF TheClassifiers[first] = Inactive7
                   THEN result.out = Return(TRUE, "Marked as 'Inactive' on PyPI.", <<>>)
                   ELSE result.out =
                            Return(FALSE, "Seems to be in a mature/stable state.", <<>>)

\* Production/Stable followed by Inactive was answered mature/stable.
C7_Witness ==
    /\ Called
    /\ RulesReached
    /\ HasClassifierList
    /\ TheClassifiers = <<Stable5, Inactive7>>
    /\ result.out = MatureVerdict

\* C8: no call of is_potentially_inactive ends with an exception.
C8_NeverRaises == result.out.kind # "raise"

\* C9 as stated: two calls with the same arguments, at any two times, that
\* return a verdict return the same one.
C9_SameVerdictAtAnyTime ==
    (prev.out.kind = "return" /\ Returned) => result.out = prev.out

\* The staleness rule has a date to compare with the clock.
TimeDependent == RulesReached /\ Len(latest_release_date(TheReleases)) > 0

\* C9, amended: two calls with the same arguments, at any two times, end the
\* same way unless the staleness rule has a latest release date to compare
\* with the current time (a name outside the table, both sections present,
\* and a dated maximum version found).
C9_SameVerdictUnlessDated ==
    (prev.out.kind # "none" /\ Called /\ ~TimeDependent) => result.out = prev.out

\* Two calls, the clock's whole range apart, of a document whose only
\* release entry carries no upload time.
C9_Witness ==
    /\ prev.at = 0
    /\ result.at = MaxTicks
    /\ RulesReached
    /\ ~TimeDependent
    /\ TheReleases = Dict(<<Item(K200, List(<<Dict(<<>>)>>))>>)
    /\ prev.out = MatureVerdict
    /\ result.out = MatureVerdict

\* The dependencies table of a parsed pyproject.toml, empty without one.
TheDependencyItems ==
    IF manifest.file.state = "toml" /\ HasPoetryDependencies(manifest.file.data)
    THEN GetOr(GetOr(GetOr(manifest.file.data, "tool", None), "poetry", None),
               "dependencies", None).items
    ELSE <<>>

\* The specifier the entry stands for: the key alone for the wildcard, the
\* key followed by the constraint string, which an inline table gives under
\* `version`.
ConstraintSpecifier(item) ==
    IF item.v = Str("*") THEN item.k
    ELSE IF item.v.tag = "str" THEN item.k \o item.v.s
    ELSE item.k \o GetOr(item.v, "version", Str("")).s

\* C10: parse_pyproject_toml returns, in table order, one specifier for every
\* key of tool.poetry.dependencies other than `python`: the key alone for
\* the wildcard, otherwise the key followed by its version constraint
\* string, also when the entry is an inline table; and nothing when the
\* table path is missing.
C10_OneSpecifierPerDependency ==
    (manifest.kind = "pyproject" /\ parsed) =>
        LET kept == SelectSeq(TheDependencyItems, LAMBDA item : item.k # "python")
        IN dependencies = [i \in 1..Len(kept) |-> ConstraintSpecifier(kept[i])]

\* The text of the requirements.txt handed to the parser.
TheText == manifest.file.text

\* Position i starts a line of the text, and the line's content, without
\* its newline, ends at LineEnd(i).
StartsLine(i) == i = 1 \/ TheText[i - 1] = "\n"
LineEnd(i) ==
    IF \E j \in i..Len(TheText) : TheText[j] = "\n"
    THEN (CHOOSE j \in i..Len(TheText) :
             TheText[j] = "\n" /\ \A k \in i..(j - 1) : TheText[k] # "\n") - 1
    ELSE Len(TheText)

\* The positions of the line starting at i that hold no whitespace.
Inked(i) == {j \in i..LineEnd(i) : TheText[j] \notin {" ", "\t", "\n", "\r", "\f"}}
First(S) == CHOOSE x \in S : \A y \in S : x <= y
Last(S) == CHOOSE x \in S : \A y \in S : x >= y

\* The starts of the lines that, trimmed, are neither empty nor a comment.
KeptStarts ==
    {i \in 1..Len(TheText) :
        StartsLine(i) /\ Inked(i) # {} /\ TheText[First(Inked(i))] # "#"}

RECURSIVE InOrder(_)
\* The trimmed text of the kept lines, by rising start.
InOrder(starts) ==
    IF starts = {} THEN <<>>
    ELSE LET i == First(starts)
         IN <<Text(SubSeq(TheText, First(Inked(i)), Last(Inked(i))))>>
                \o InOrder(starts \ {i})

\* C11: parse_requirements_txt returns, in file order and with duplicates
\* kept, the whitespace-trimmed text of every line that after trimming is
\* non-empty and does not start with `#`; empty, whitespace-only and comment
\* lines (also indented ones) add nothing, and a missing file gives the
\* empty sequence.
C11_TrimmedNonCommentLines ==
    (manifest.kind = "requirements" /\ parsed) =>
        IF manifest.file.state = "missing" THEN dependencies = <<>>
        ELSE dependencies = InOrder(KeptStarts)

\* A comment, an indented requirement and the same requirement again gave
\* the requirement twice.
C11_Witness ==
    /\ manifest.kind = "requirements"
    /\ parsed
    /\ manifest.file = TextFile(<<"#", "\n", " ", "r", "\n", "r">>)
    /\ dependencies = <<"r", "r">>


\* C12: every dependency specifier returned by any of the three manifest
\* parsers is a non-empty string; in particular parse_setup_py returns the
\* empty sequence for install_requires=[] and adds no empty element for a
\* trailing comma or for consecutive commas.
C12_NoEmptySpecifier ==
    parsed => \A i \in 1..Len(dependencies) : dependencies[i] # ""

====
